---- MODULE Spec2Model ----
(***************************************************************************)
(* PallyOps-Tracker: the operation timing engine (OperationService), the   *)
(* batch initialiser (BatchService.initialize_batch) and the               *)
(* operations_log table they share.                                        *)
(*                                                                         *)
(* Every request runs in its own SQLAlchemy session (get_db) against       *)
(* PostgreSQL at its default isolation level, READ COMMITTED.  A request   *)
(* is modelled as a process that takes one step per SQL statement it       *)
(* sends; local computation is folded into the statement that follows it.  *)
(* `store` holds the committed rows.  A row that a session has flushed but *)
(* not committed is visible to nobody else, yet it already occupies its    *)
(* slot in the unique index: another INSERT of the same key waits for the  *)
(* owner to commit or roll back (modelled as the waiting step being        *)
(* disabled).  An ORM UPDATE is "UPDATE ... SET <changed columns> WHERE    *)
(* id = ?": it is applied to the latest committed version of the row and   *)
(* leaves the other columns alone.                                         *)
(***************************************************************************)
EXTENDS Integers, Sequences, FiniteSets, TLC

\* ------------------------------------------------------------- bounds
NumProcs == 2      \* concurrent requests, each in a session of its own
NumUsers == 2      \* authenticated users the requests come from
MaxDate == 2       \* operation dates are the day ordinals 1..MaxDate
MaxTime == 1       \* the server clock runs over 0..MaxTime
NumRoles == 2      \* requests name the first NumRoles roles, or the Driver
NumBatches == 1    \* requests name the last NumBatches batches
MaxOrders == 1     \* delivery counts are drawn from 0..MaxOrders
MaxSessions == 2   \* rows of user_sessions at a time

\* ------------------------------------------------- constants.py
ROLE_ORDER ==
    << "Procurement", "Inventory QC - IN", "QC - Preppers", "Pre-stagers",
       "Extra Service Preppers", "Pickers and Packers", "QC-out",
       "Stock handler 1", "Stock handler 2", "Manifester", "Driver" >>

TOTAL_ROLES == Len(ROLE_ORDER)

DRIVER_ROLE == "Driver"

ALL_BATCHES == << "A", "B", "C", "D" >>

RESTRICTED_BATCHES == << "A", "B", "C" >>

RESTRICTED_DAYS == {1, 4}

VALID_ROLES == { ROLE_ORDER[i] : i \in 1..TOTAL_ROLES }

NULL == 0 - 2      \* SQL NULL / Python None in a numeric column

NoRole == "None"   \* Python None where a role name is expected

SeqToSet(s) == { s[i] : i \in 1..Len(s) }

\* ROLE_ORDER.index(role), 0-based; -1 when absent
get_role_index(role) ==
    IF role \in VALID_ROLES
    THEN (CHOOSE i \in 1..TOTAL_ROLES : ROLE_ORDER[i] = role) - 1
    ELSE 0 - 1

\* an index step without the test for the first role: Python's ROLE_ORDER[-1]
get_previous_role_unguarded(role) ==
    LET index == get_role_index(role)
    IN  IF index < 0 THEN NoRole
        ELSE IF index = 0 THEN ROLE_ORDER[TOTAL_ROLES]
        ELSE ROLE_ORDER[(index - 1) + 1]

get_previous_role(role) ==
    LET index == get_role_index(role)
    IN  IF index <= 0 THEN NoRole ELSE ROLE_ORDER[(index - 1) + 1]

\* a weekday numbered from Sunday = 1
isoweekday_from_sunday(d) == (d % 7) + 1

\* date.isoweekday() of a day ordinal: 1 = Monday .. 7 = Sunday
isoweekday(d) == IF d % 7 = 0 THEN 7 ELSE d % 7

\* a calendar that offers every batch on every day
get_available_batches_for_date_all(operation_date) == ALL_BATCHES

get_available_batches_for_date(operation_date) ==
    IF isoweekday(operation_date) \in RESTRICTED_DAYS
    THEN RESTRICTED_BATCHES
    ELSE ALL_BATCHES

\* Messages
BATCH_NOT_AVAILABLE == "Batch not available for this date"
READONLY_DATE == "Cannot modify operations for past dates"
OPERATION_STARTED == "Operation started successfully"
OPERATION_COMPLETED == "Operation completed successfully"
OPERATION_ALREADY_STARTED == "Operation already started"
OPERATION_NOT_STARTED == "Operation has not been started yet"
OPERATION_ALREADY_COMPLETED == "Operation already completed"
FAILED_TO_START == "Failed to start operation"
FAILED_TO_COMPLETE == "Failed to complete operation"
FAILED_TO_COMPLETE_DRIVER == "Failed to complete driver operation"
LOGIN_SUCCESS == "Login successful"
LOGOUT_SUCCESS == "Logged out successfully"
INVALID_TOKEN == "Invalid or expired token"

\* ------------------------------------------------- inputs of the requests
Procs == 1..NumProcs

Users == 1..NumUsers

InputDates == 1..MaxDate

InputBatches ==
    { ALL_BATCHES[i] : i \in (Len(ALL_BATCHES) - NumBatches + 1)..Len(ALL_BATCHES) }

InputRoles == { ROLE_ORDER[i] : i \in 1..NumRoles } \cup {DRIVER_ROLE}

EndRoles == InputRoles \ {DRIVER_ROLE}

Counts == 0..MaxOrders

VARIABLES
    store,      \* committed rows of operations_log
    today,      \* get_current_date(), a day ordinal
    now,        \* get_current_time(), a clock reading
    pc,         \* pc[p]: where request p stands
    call,       \* call[p]: the request p is serving (NoCall when idle)
    op,         \* op[p]: id of the committed row p's session loaded, or NoId
    flushed,    \* flushed[p]: p's session holds a flushed, uncommitted INSERT
    pending,    \* pending[p]: roles whose new row p's session has db.add()ed
    prev_op,    \* prev_op[p]: what start_operation read of the previous role
    scan,       \* scan[p]: _get_incomplete_roles' loop: <<roles read, list>>
    response,   \* what the step just taken returned to its caller, if anything
    started,    \* the successful starts so far: <<request, date, batch, role>>
    user_sessions,  \* committed rows of user_sessions
    tokens,     \* the access tokens handed to clients so far
    logged_out  \* the tokens a logout has answered with success

vars == << store, today, now, pc, call, op, flushed, pending, prev_op, scan,
           response, started, user_sessions, tokens, logged_out >>

\* what the operation and batch handlers never touch
auth_vars == << user_sessions, tokens, logged_out >>

\* ------------------------------------------------- models/operation.py
SameKey(o, d, b, r) ==
    o.operation_date = d /\ o.batch = b /\ o.operation_role = r

NewRow(id, d, b, r) ==
    [ id |-> id, operation_date |-> d, batch |-> b, operation_role |-> r,
      start_time |-> NULL, end_time |-> NULL,
      total_orders |-> NULL, on_time_deliveries |-> NULL,
      started_by_user_id |-> NULL, completed_by_user_id |-> NULL ]

\* Column id (uuid4): an opaque token, here the key and the count of rows that
\* had the key when the row was inserted (1 while unique_operation holds)
NoId == << >>

RowId(rows, d, b, r) ==
    << d, b, r, Cardinality({ o \in rows : SameKey(o, d, b, r) }) + 1 >>

NoRow == NewRow(NoId, NULL, "", NoRole)

\* a status that knows only PENDING and COMPLETED
status_two_valued(o) ==
    IF o.end_time # NULL THEN "COMPLETED" ELSE "PENDING"

status(o) ==
    IF o.end_time # NULL THEN "COMPLETED"
    ELSE IF o.start_time # NULL THEN "IN_PROGRESS"
    ELSE "PENDING"

\* a table without the constraint end_after_start
end_after_start_unchecked(o) == TRUE

\* CheckConstraint end_after_start; a comparison with NULL is not false in SQL
end_after_start(o) ==
    o.end_time = NULL \/ o.start_time = NULL \/ o.end_time >= o.start_time

driver_orders_valid(o) ==
    \/ o.operation_role # DRIVER_ROLE
    \/ o.end_time = NULL
    \/ (o.total_orders # NULL /\ o.total_orders >= 0)

on_time_not_exceed_total(o) ==
    \/ o.on_time_deliveries = NULL
    \/ o.total_orders = NULL
    \/ o.on_time_deliveries <= o.total_orders

CheckConstraints(o) ==
    end_after_start(o) /\ driver_orders_valid(o) /\ on_time_not_exceed_total(o)

\* a table without the unique constraint
UniqueViolationLax(d, b, r) == FALSE

\* UniqueConstraint unique_operation against the committed rows

UniqueViolation(d, b, r) == \E o \in store : SameKey(o, d, b, r)

\* another session holds a flushed, uncommitted row with this key
IndexLocked(p, d, b, r) ==
    \E q \in Procs \ {p} :
        /\ flushed[q]
        /\ call[q].operation_date = d
        /\ call[q].batch = b
        /\ r \in pending[q]

\* ------------------------------------------------- utils/timezone.py
\* a comparison that leaves yesterday writable
is_past_date_grace(check_date) == check_date + 1 < today

is_past_date(check_date) == check_date < today

\* ------------------------------------------------- OperationService
\* a lookup that forgets the role: any row of the date and batch
get_operation_any_role(d, b, r) ==
    IF \E o \in store : o.operation_date = d /\ o.batch = b
    THEN CHOOSE o \in store : o.operation_date = d /\ o.batch = b
    ELSE NoRow

\* a lookup that finds nothing
get_operation_none(d, b, r) == NoRow

get_operation(d, b, r) ==
    IF \E o \in store : SameKey(o, d, b, r)
    THEN CHOOSE o \in store : SameKey(o, d, b, r)
    ELSE NoRow

RowById(id) == CHOOSE o \in store : o.id = id

NoCall == [ kind |-> "none", user |-> NULL,
            operation_date |-> NULL, batch |-> "", role |-> NoRole,
            total_orders |-> NULL, on_time_deliveries |-> NULL ]

NoResponse ==
    [ proc |-> NULL, call |-> NoCall,
      success |-> FALSE, message |-> "", data |-> "unset", error |-> "",
      started_by |-> NULL, started_at |-> NULL,
      operation |-> NoRow, warning |-> "", incomplete |-> << >> ]

\* (False, message, None)
Failure(message) == [ NoResponse EXCEPT !.message = message, !.data = "None" ]

\* (False, message, {"error": "ALREADY_STARTED", "started_by", "started_at"})
AlreadyStarted(o) ==
    [ NoResponse EXCEPT !.message = OPERATION_ALREADY_STARTED, !.data = "error",
                        !.error = "ALREADY_STARTED",
                        !.started_by = o.started_by_user_id,
                        !.started_at = o.start_time ]

\* (True, message, {"operation": _to_response(operation), "warning": warning})
Success(message, o, warning, incomplete) ==
    [ NoResponse EXCEPT !.success = TRUE, !.message = message, !.data = "operation",
                        !.operation = o, !.warning = warning,
                        !.incomplete = incomplete ]

Idle(p) == pc[p] = "idle"

NoScan == << 0, << >> >>

\* the request returns res: the session is closed and its locals are dropped
Return(p, c, res) ==
    /\ pc' = [pc EXCEPT ![p] = "idle"]
    /\ call' = [call EXCEPT ![p] = NoCall]
    /\ op' = [op EXCEPT ![p] = NoId]
    /\ flushed' = [flushed EXCEPT ![p] = FALSE]
    /\ pending' = [pending EXCEPT ![p] = {}]
    /\ prev_op' = [prev_op EXCEPT ![p] = "unread"]
    /\ scan' = [scan EXCEPT ![p] = NoScan]
    /\ response' = [res EXCEPT !.proc = p, !.call = c]
    /\ UNCHANGED auth_vars

\* the request goes on to its next statement at label
Goto(p, c, label) ==
    /\ pc' = [pc EXCEPT ![p] = label]
    /\ call' = [call EXCEPT ![p] = c]
    /\ response' = NoResponse
    /\ UNCHANGED auth_vars

Init ==
    /\ store = {}
    /\ today = MaxDate
    /\ now = 0
    /\ pc = [p \in Procs |-> "idle"]
    /\ call = [p \in Procs |-> NoCall]
    /\ op = [p \in Procs |-> NoId]
    /\ flushed = [p \in Procs |-> FALSE]
    /\ pending = [p \in Procs |-> {}]
    /\ prev_op = [p \in Procs |-> "unread"]
    /\ scan = [p \in Procs |-> NoScan]
    /\ response = NoResponse
    /\ started = {}
    /\ user_sessions = {}
    /\ tokens = {}
    /\ logged_out = {}

\* ------------------------------------------------- the clock
Tick ==
    /\ now < MaxTime
    /\ now' = now + 1
    /\ response' = NoResponse
    /\ UNCHANGED << store, today, pc, call, op, flushed, pending, prev_op, scan, started >>
    /\ UNCHANGED auth_vars

AdvanceDay ==
    /\ today <= MaxDate
    /\ today' = today + 1
    /\ response' = NoResponse
    /\ UNCHANGED << store, now, pc, call, op, flushed, pending, prev_op, scan, started >>
    /\ UNCHANGED auth_vars

\* ------------------------------------------------- start_operation
StartCall(u, d, b, r) ==
    [ NoCall EXCEPT !.kind = "start", !.user = u,
                    !.operation_date = d, !.batch = b, !.role = r ]

\* what a reader sees of a row: absent, end_time null, or end_time set
RowState(o) ==
    IF o = NoRow THEN "absent"
    ELSE IF o.end_time = NULL THEN "open"
    ELSE "completed"

\* lines 110-120: the warning start_operation attaches
start_warning(previous_role, seen) ==
    IF previous_role # NoRole /\ seen = "open"
    THEN previous_role ELSE ""

\* lines 83-107: the two precondition checks, then get_operation inside
\* _get_or_create_operation and the test of start_time on the row it found
StartOperation(p, u, d, b, r) ==
    /\ Idle(p)
    /\ UNCHANGED << store, today, now, started >>
    /\ LET c == StartCall(u, d, b, r)
           operation == get_operation(d, b, r)
       IN  IF b \notin SeqToSet(get_available_batches_for_date(d))
           THEN Return(p, c, Failure(BATCH_NOT_AVAILABLE))
           ELSE IF is_past_date(d)
           THEN Return(p, c, Failure(READONLY_DATE))
           ELSE IF operation = NoRow
           THEN /\ Goto(p, c, "start_insert")
                /\ UNCHANGED << op, flushed, pending, prev_op, scan >>
           ELSE IF operation.start_time # NULL
           THEN Return(p, c, AlreadyStarted(operation))
           ELSE /\ Goto(p, c, "start_prev")
                /\ op' = [op EXCEPT ![p] = operation.id]
                /\ UNCHANGED << flushed, pending, prev_op, scan >>

\* lines 498-508: db.add(operation); db.flush() sends the INSERT
StartInsert(p) ==
    /\ pc[p] = "start_insert"
    /\ ~IndexLocked(p, call[p].operation_date, call[p].batch, call[p].role)
    /\ UNCHANGED << store, today, now, started >>
    /\ IF UniqueViolation(call[p].operation_date, call[p].batch, call[p].role)
       THEN \* except IntegrityError: db.rollback()
            Return(p, call[p], Failure(OPERATION_ALREADY_STARTED))
       ELSE /\ Goto(p, call[p], "start_prev")
            /\ flushed' = [flushed EXCEPT ![p] = TRUE]
            /\ pending' = [pending EXCEPT ![p] = {call[p].role}]
            /\ UNCHANGED << op, prev_op, scan >>

\* lines 109-120: read the previous role's row
StartCheckPrevious(p) ==
    /\ pc[p] = "start_prev"
    /\ LET previous_role == get_previous_role(call[p].role)
       IN  prev_op' = [prev_op EXCEPT ![p] =
               IF previous_role = NoRole THEN "none"
               ELSE RowState(get_operation(call[p].operation_date,
                                           call[p].batch, previous_role))]
    /\ Goto(p, call[p], "start_commit")
    /\ UNCHANGED << store, today, now, op, flushed, pending, scan, started >>

\* a write of the time that leaves the user out
StartedRowTimeOnly(o, user) == [ o EXCEPT !.start_time = now ]

\* the row start_operation writes: start_time and started_by_user_id only
StartedRow(o, user) ==
    [ o EXCEPT !.start_time = now, !.started_by_user_id = user ]

\* lines 122-139: set the two columns, db.commit(), db.refresh(), respond
StartCommit(p) ==
    /\ pc[p] = "start_commit"
    /\ UNCHANGED << today, now >>
    /\ LET c == call[p]
           old == IF flushed[p]
                  THEN NewRow(RowId(store, c.operation_date, c.batch, c.role),
                              c.operation_date, c.batch, c.role)
                  ELSE RowById(op[p])
           new == StartedRow(old, c.user)
           warning == start_warning(get_previous_role(c.role), prev_op[p])
       IN  IF ~CheckConstraints(new)
           THEN \* except IntegrityError: db.rollback()
                /\ UNCHANGED << store, started >>
                /\ Return(p, c, Failure(OPERATION_ALREADY_STARTED))
           ELSE /\ store' = (store \ {old}) \cup {new}
                /\ started' = started \cup
                       { << p, c.operation_date, c.batch, c.role >> }
                /\ Return(p, c, Success(OPERATION_STARTED, new, warning, << >>))

\* ------------------------------------------------- end_operation
EndCall(u, d, b, r) ==
    [ NoCall EXCEPT !.kind = "end", !.user = u,
                    !.operation_date = d, !.batch = b, !.role = r ]

\* the checks without the test of start_time
end_precheck_unstarted(operation) ==
    IF operation = NoRow THEN OPERATION_NOT_STARTED
    ELSE IF operation.end_time # NULL THEN OPERATION_ALREADY_COMPLETED
    ELSE ""

\* the checks answering every refusal with one message
end_precheck_conflated(operation) ==
    IF operation = NoRow THEN OPERATION_ALREADY_COMPLETED
    ELSE IF operation.end_time # NULL THEN OPERATION_ALREADY_COMPLETED
    ELSE IF operation.start_time = NULL THEN OPERATION_ALREADY_COMPLETED
    ELSE ""

\* lines 181-190 (and 248-257): the checks on the row get_operation returned;
\* "" when the row may be completed

end_precheck(operation) ==
    IF operation = NoRow THEN OPERATION_NOT_STARTED
    ELSE IF operation.end_time # NULL THEN OPERATION_ALREADY_COMPLETED
    ELSE IF operation.start_time = NULL THEN OPERATION_NOT_STARTED
    ELSE ""

\* lines 168-190: the read-only check, get_operation and the checks on the row.
\* OperationEnd.validate_role has rejected the Driver role before this
EndOperation(p, u, d, b, r) ==
    /\ Idle(p)
    /\ UNCHANGED << store, today, now, started >>
    /\ LET c == EndCall(u, d, b, r)
           operation == get_operation(d, b, r)
       IN  IF is_past_date(d)
           THEN Return(p, c, Failure(READONLY_DATE))
           ELSE IF end_precheck(operation) # ""
           THEN Return(p, c, Failure(end_precheck(operation)))
           ELSE /\ Goto(p, c, "end_commit")
                /\ op' = [op EXCEPT ![p] = operation.id]
                /\ UNCHANGED << flushed, pending, prev_op, scan >>

\* a write that completes the row and takes its start back
EndedRowUnstarted(o, user) ==
    [ o EXCEPT !.end_time = now, !.completed_by_user_id = user,
               !.start_time = NULL, !.started_by_user_id = NULL ]

\* the row end_operation writes: end_time and completed_by_user_id only
EndedRow(o, user) ==
    [ o EXCEPT !.end_time = now, !.completed_by_user_id = user ]

\* lines 192-209: set the two columns, db.commit(), db.refresh(), respond
EndCommit(p) ==
    /\ pc[p] = "end_commit"
    /\ UNCHANGED << today, now, started >>
    /\ LET old == RowById(op[p])
           new == EndedRow(old, call[p].user)
       IN  IF ~CheckConstraints(new)
           THEN \* except Exception: db.rollback()
                /\ UNCHANGED store
                /\ Return(p, call[p], Failure(FAILED_TO_COMPLETE))
           ELSE /\ store' = (store \ {old}) \cup {new}
                /\ Return(p, call[p], Success(OPERATION_COMPLETED, new, "", << >>))

\* ------------------------------------------------- end_driver_operation
DriverEndCall(u, d, b, total_orders, on_time_deliveries) ==
    [ NoCall EXCEPT !.kind = "end_driver", !.user = u,
                    !.operation_date = d, !.batch = b,
                    !.role = DRIVER_ROLE, !.total_orders = total_orders,
                    !.on_time_deliveries = on_time_deliveries ]

VALIDATION_ERROR == "On-time deliveries cannot exceed total orders"

\* schemas/operation.py DriverEnd: both counts ge=0, and validate_order_counts
validate_order_counts(total_orders, on_time_deliveries) ==
    total_orders >= 0 /\ on_time_deliveries >= 0
        /\ on_time_deliveries <= total_orders

\* lines 235-257: what the service does with the request it is handed
end_driver_operation(p, c) ==
    LET operation == get_operation(c.operation_date, c.batch, DRIVER_ROLE)
    IN  IF is_past_date(c.operation_date)
        THEN Return(p, c, Failure(READONLY_DATE))
        ELSE IF end_precheck(operation) # ""
        THEN Return(p, c, Failure(end_precheck(operation)))
        ELSE /\ Goto(p, c, "driver_scan")
             /\ op' = [op EXCEPT ![p] = operation.id]
             /\ UNCHANGED << flushed, pending, prev_op, scan >>

\* the request validation of DriverEnd, then the service
EndDriverOperation(p, u, d, b, total_orders, on_time_deliveries) ==
    /\ Idle(p)
    /\ UNCHANGED << store, today, now, started >>
    /\ LET c == DriverEndCall(u, d, b, total_orders, on_time_deliveries)
       IN  IF ~validate_order_counts(total_orders, on_time_deliveries)
           THEN Return(p, c, Failure(VALIDATION_ERROR))
           ELSE end_driver_operation(p, c)

\* the service called on its own, with counts no schema has validated
RawCounts == (0 - 1)..MaxOrders

EngineEndDriver(p, u, d, b, total_orders, on_time_deliveries) ==
    /\ Idle(p)
    /\ UNCHANGED << store, today, now, started >>
    /\ end_driver_operation(p, DriverEndCall(u, d, b, total_orders,
                                             on_time_deliveries))

\* a turn of the loop that passes over a role with no row
ReadRoleRecorded(d, b, role, incomplete) ==
    IF role = DRIVER_ROLE THEN incomplete
    ELSE IF get_operation(d, b, role) # NoRow
            /\ get_operation(d, b, role).end_time = NULL
    THEN Append(incomplete, role)
    ELSE incomplete

\* _get_incomplete_roles lines 533-540: one turn of the loop
ReadRole(d, b, role, incomplete) ==
    IF role = DRIVER_ROLE THEN incomplete
    ELSE IF get_operation(d, b, role) = NoRow
            \/ get_operation(d, b, role).end_time = NULL
    THEN Append(incomplete, role)
    ELSE incomplete

\* The loop from role i + 1 up to the next role a request can complete, or
\* to the end: <<roles read, list>>.  A role no request names stays absent or
\* PENDING and reads as incomplete whenever it is read, so its read is taken
\* together with the read before it.
RECURSIVE ScanRoles(_, _, _, _)
ScanRoles(d, b, i, incomplete) ==
    LET read == ReadRole(d, b, ROLE_ORDER[i + 1], incomplete)
    IN  IF i + 1 = TOTAL_ROLES THEN << i + 1, read >>
        ELSE IF ROLE_ORDER[i + 2] \in EndRoles THEN << i + 1, read >>
        ELSE ScanRoles(d, b, i + 1, read)

\* _get_incomplete_roles lines 531-542: one get_operation per role, in order
DriverScan(p) ==
    /\ pc[p] = "driver_scan"
    /\ scan[p][1] < TOTAL_ROLES
    /\ scan' = [scan EXCEPT ![p] =
           ScanRoles(call[p].operation_date, call[p].batch, scan[p][1], scan[p][2])]
    /\ Goto(p, call[p], "driver_scan")
    /\ UNCHANGED << store, today, now, op, flushed, pending, prev_op, started >>

\* a write that leaves on_time_deliveries out
DriverEndedRowTotalOnly(o, c) ==
    [ o EXCEPT !.end_time = now, !.completed_by_user_id = c.user,
               !.total_orders = c.total_orders ]

\* the row end_driver_operation writes
DriverEndedRow(o, c) ==
    [ o EXCEPT !.end_time = now, !.completed_by_user_id = c.user,
               !.total_orders = c.total_orders,
               !.on_time_deliveries = c.on_time_deliveries ]

\* lines 267-268: the warning is the list of roles behind a fixed prefix
driver_warning(incomplete_roles) ==
    IF incomplete_roles # << >> THEN "Roles not completed" ELSE ""

\* lines 267-289: the warning, the four columns, db.commit(), respond
DriverCommit(p) ==
    /\ pc[p] = "driver_scan"
    /\ scan[p][1] = TOTAL_ROLES
    /\ UNCHANGED << today, now, started >>
    /\ LET old == RowById(op[p])
           new == DriverEndedRow(old, call[p])
       IN  IF ~CheckConstraints(new)
           THEN \* except Exception: db.rollback()
                /\ UNCHANGED store
                /\ Return(p, call[p], Failure(FAILED_TO_COMPLETE_DRIVER))
           ELSE /\ store' = (store \ {old}) \cup {new}
                /\ Return(p, call[p],
                          Success(OPERATION_COMPLETED, new,
                                  driver_warning(scan[p][2]), scan[p][2]))

\* ------------------------------------------------- initialize_batch
InitCall(d, b) ==
    [ NoCall EXCEPT !.kind = "init", !.operation_date = d, !.batch = b ]

\* initialize_batch returns a bool
InitResult(ok) == [ NoResponse EXCEPT !.success = ok, !.data = "bool" ]

\* a check that lets every batch through
is_batch_available_any(operation_date, batch) == TRUE

\* is_batch_available
is_batch_available(operation_date, batch) ==
    batch \in SeqToSet(get_available_batches_for_date(operation_date))

\* lines 284-302: the availability check, then one get_operation per role
\* and db.add() of a new row for each role that has none
InitializeBatch(p, d, b) ==
    /\ Idle(p)
    /\ UNCHANGED << store, today, now, started >>
    /\ IF ~is_batch_available(d, b)
       THEN Return(p, InitCall(d, b), InitResult(FALSE))
       ELSE /\ Goto(p, InitCall(d, b), "init_commit")
            /\ pending' = [pending EXCEPT ![p] =
                   { r \in VALID_ROLES : get_operation(d, b, r) = NoRow }]
            /\ UNCHANGED << op, flushed, prev_op, scan >>

\* lines 304-309: db.commit() sends the INSERTs and commits
InitCommit(p) ==
    /\ pc[p] = "init_commit"
    /\ \A r \in pending[p] :
           ~IndexLocked(p, call[p].operation_date, call[p].batch, r)
    /\ UNCHANGED << today, now, started >>
    /\ IF \E r \in pending[p] :
              UniqueViolation(call[p].operation_date, call[p].batch, r)
       THEN \* except Exception: db.rollback()
            /\ UNCHANGED store
            /\ Return(p, call[p], InitResult(FALSE))
       ELSE /\ store' = store \cup
                   { NewRow(RowId(store, call[p].operation_date, call[p].batch, r),
                            call[p].operation_date, call[p].batch, r) :
                     r \in pending[p] }
            /\ Return(p, call[p], InitResult(TRUE))

\* start_operation lines 140-142, end_operation lines 207-209,
\* end_driver_operation lines 287-289, initialize_batch lines 307-309: any
\* other exception (the storage failing under a statement) rolls back
FailureMessage(kind) ==
    CASE kind = "start" -> FAILED_TO_START
      [] kind = "end" -> FAILED_TO_COMPLETE
      [] kind = "end_driver" -> FAILED_TO_COMPLETE_DRIVER
      [] OTHER -> ""

StorageFailure(p) ==
    /\ ~Idle(p)
    /\ UNCHANGED << store, today, now, started >>
    /\ Return(p, call[p], IF call[p].kind = "init" THEN InitResult(FALSE)
                          ELSE Failure(FailureMessage(call[p].kind)))

\* ------------------------------------------------- queries
\* a query returns its result and writes nothing
QueryCall(kind, d, b, r) ==
    [ NoCall EXCEPT !.kind = kind, !.operation_date = d, !.batch = b, !.role = r ]

QueryResult(kind, result) ==
    [ NoResponse EXCEPT !.success = TRUE, !.data = kind ] @@ [ result |-> result ]

\* check_previous_role lines 316-349; the warning message names the previous
\* role and is "" for None
check_previous_role(operation_date, batch, role) ==
    LET previous_role == get_previous_role(role)
        prev_operation == get_operation(operation_date, batch, previous_role)
        is_completed == prev_operation # NoRow /\ prev_operation.end_time # NULL
        show_warning == ~is_completed
    IN  IF previous_role = NoRole
        THEN [ current_role |-> role, previous_role |-> NoRole,
               is_previous_completed |-> TRUE, show_warning |-> FALSE,
               warning_message |-> "" ]
        ELSE [ current_role |-> role, previous_role |-> previous_role,
               is_previous_completed |-> is_completed,
               show_warning |-> show_warning,
               warning_message |-> IF show_warning THEN previous_role ELSE "" ]

\* GET /operations/check-previous: the role is one of VALID_ROLES
CheckPreviousRole(p, d, b, r) ==
    /\ Idle(p)
    /\ UNCHANGED << store, today, now, started >>
    /\ Return(p, QueryCall("check_previous", d, b, r),
              QueryResult("check_previous", check_previous_role(d, b, r)))

\* a rounding that cuts the digits after the second decimal off
Round2Down(num, den) == (num * 10000) \div den

\* round(100 * num / den, 2) in hundredths of a percent: the nearest
\* hundredth, a tie going to the even one as Python's round() does
Round2(num, den) ==
    LET q == (num * 10000) \div den
        r == (num * 10000) % den
    IN  IF 2 * r < den THEN q
        ELSE IF 2 * r > den THEN q + 1
        ELSE IF q % 2 = 0 THEN q ELSE q + 1

\* a status that takes a batch for finished once every role is started
batch_status_started(started_count, completed_count) ==
    IF started_count = 0 THEN "RED"
    ELSE IF started_count >= TOTAL_ROLES THEN "GREEN"
    ELSE "YELLOW"

\* _calculate_batch_status lines 226-232
batch_status(started_count, completed_count) ==
    IF started_count = 0 THEN "RED"
    ELSE IF completed_count >= TOTAL_ROLES THEN "GREEN"
    ELSE "YELLOW"

\* lines 209-215 and 217-223: the two count queries
started_count(operation_date, batch) ==
    Cardinality({ o \in store : /\ o.operation_date = operation_date
                                /\ o.batch = batch
                                /\ o.start_time # NULL })

completed_count(operation_date, batch) ==
    Cardinality({ o \in store : /\ o.operation_date = operation_date
                                /\ o.batch = batch
                                /\ o.end_time # NULL })

\* lines 225-243: the response built from the two counts
BatchStatusResponse(batch, n_started, n_completed) ==
    [ batch |-> batch, status |-> batch_status(n_started, n_completed),
      started_count |-> n_started, completed_count |-> n_completed,
      total_roles |-> TOTAL_ROLES,
      progress_percentage |-> Round2(n_completed, TOTAL_ROLES) ]

BATCH_NOT_FOUND == "Batch not found or not available for date"

\* get_batch_detail lines 105-111 and _calculate_batch_status lines 209-215:
\* the availability check and the first count query, kept in scan[p][1]
GetBatchDetail(p, d, b) ==
    /\ Idle(p)
    /\ UNCHANGED << store, today, now, started >>
    /\ LET c == QueryCall("batch_status", d, b, NoRole)
       IN  IF b \notin SeqToSet(get_available_batches_for_date(d))
           THEN Return(p, c, Failure(BATCH_NOT_FOUND))
           ELSE /\ Goto(p, c, "status_completed")
                /\ scan' = [scan EXCEPT ![p] = << started_count(d, b), << >> >>]
                /\ UNCHANGED << op, flushed, pending, prev_op >>

\* _calculate_batch_status lines 217-243: the second count query, the status
CountCompleted(p) ==
    /\ pc[p] = "status_completed"
    /\ UNCHANGED << store, today, now, started >>
    /\ Return(p, call[p],
              QueryResult("batch_status",
                  BatchStatusResponse(call[p].batch, scan[p][1],
                      completed_count(call[p].operation_date, call[p].batch))))

\* get_daily_summary lines 336-350: the loop over the available batches from
\* the i-th on; a count of 0 or None is skipped by the truth test of
\* "if driver_op and driver_op.total_orders"
RECURSIVE SummaryLoop(_, _, _, _)
SummaryLoop(operation_date, available_batches, i, acc) ==
    IF i > Len(available_batches) THEN acc
    ELSE LET batch == available_batches[i]
             st == BatchStatusResponse(batch,
                       started_count(operation_date, batch),
                       completed_count(operation_date, batch))
             driver_op == get_operation(operation_date, batch, DRIVER_ROLE)
             has_orders == /\ driver_op # NoRow
                           /\ driver_op.total_orders # NULL
                           /\ driver_op.total_orders # 0
             has_on_time == /\ has_orders
                            /\ driver_op.on_time_deliveries # NULL
                            /\ driver_op.on_time_deliveries # 0
         IN  SummaryLoop(operation_date, available_batches, i + 1,
                 [ completed_batches |-> acc.completed_batches
                       + (IF st.status = "GREEN" THEN 1 ELSE 0),
                   completed_roles |-> acc.completed_roles + st.completed_count,
                   total_orders |-> acc.total_orders
                       + (IF has_orders THEN driver_op.total_orders ELSE 0),
                   total_on_time |-> acc.total_on_time
                       + (IF has_on_time THEN driver_op.on_time_deliveries ELSE 0) ])

\* get_daily_summary lines 327-367; percentages in hundredths of a percent
get_daily_summary(operation_date) ==
    LET available_batches == get_available_batches_for_date(operation_date)
        acc == SummaryLoop(operation_date, available_batches, 1,
                   [ completed_batches |-> 0, completed_roles |-> 0,
                     total_orders |-> 0, total_on_time |-> 0 ])
        total_role_slots == Len(available_batches) * TOTAL_ROLES
    IN  [ operation_date |-> operation_date,
          total_batches |-> Len(available_batches),
          completed_batches |-> acc.completed_batches,
          total_roles |-> total_role_slots,
          completed_roles |-> acc.completed_roles,
          overall_progress |->
              IF total_role_slots > 0
              THEN Round2(acc.completed_roles, total_role_slots) ELSE 0,
          total_orders_delivered |->
              IF acc.total_orders > 0 THEN acc.total_orders ELSE NULL,
          total_on_time_deliveries |->
              IF acc.total_on_time > 0 THEN acc.total_on_time ELSE NULL,
          overall_on_time_percentage |->
              IF acc.total_orders > 0
              THEN Round2(acc.total_on_time, acc.total_orders) ELSE NULL ]

\* GET /batches/summary; the reads of the loop are taken in one step
GetDailySummary(p, d) ==
    /\ Idle(p)
    /\ UNCHANGED << store, today, now, started >>
    /\ Return(p, QueryCall("daily_summary", d, "", NoRole),
              QueryResult("daily_summary", get_daily_summary(d)))

\* get_batches_for_date lines 64-83: the status of each available batch, in
\* order; the reads of the loop are taken in one step
get_batches_for_date(operation_date) ==
    LET available_batches == get_available_batches_for_date(operation_date)
    IN  [ operation_date |-> operation_date,
          is_restricted_day |-> isoweekday(operation_date) \in RESTRICTED_DAYS,
          batches |-> [ i \in 1..Len(available_batches) |->
              BatchStatusResponse(available_batches[i],
                  started_count(operation_date, available_batches[i]),
                  completed_count(operation_date, available_batches[i])) ] ]

\* GET /batches
GetBatches(p, d) ==
    /\ Idle(p)
    /\ UNCHANGED << store, today, now, started >>
    /\ Return(p, QueryCall("batches", d, "", NoRole),
              QueryResult("batches", get_batches_for_date(d)))

\* get_batch_operations: the rows of a date and batch, one query
get_batch_operations(operation_date, batch) ==
    { o \in store : o.operation_date = operation_date /\ o.batch = batch }

\* op_map.get(role): a row of the role among the rows read, or None
op_map_get(operations, role) ==
    IF \E o \in operations : o.operation_role = role
    THEN CHOOSE o \in operations : o.operation_role = role
    ELSE NoRow

\* models/operation.py duration_minutes, in clock readings
duration_minutes(o) ==
    IF o.start_time # NULL /\ o.end_time # NULL
    THEN o.end_time - o.start_time ELSE NULL

\* models/operation.py on_time_percentage, in hundredths of a percent
on_time_percentage(o) ==
    IF o.total_orders # NULL /\ o.total_orders > 0 /\ o.on_time_deliveries # NULL
    THEN Round2(o.on_time_deliveries, o.total_orders) ELSE NULL

\* get_all_roles_status lines 444-469: the entry of the role at a 0-based index
RoleStatusResponse(operation, role, index) ==
    IF operation # NoRow
    THEN [ role |-> role, order |-> index + 1, status |-> status(operation),
           start_time |-> operation.start_time, end_time |-> operation.end_time,
           duration_minutes |-> duration_minutes(operation),
           started_by |-> operation.started_by_user_id,
           completed_by |-> operation.completed_by_user_id,
           total_orders |-> operation.total_orders,
           on_time_deliveries |-> operation.on_time_deliveries,
           on_time_percentage |-> on_time_percentage(operation) ]
    ELSE [ role |-> role, order |-> index + 1, status |-> "PENDING",
           start_time |-> NULL, end_time |-> NULL, duration_minutes |-> NULL,
           started_by |-> NULL, completed_by |-> NULL,
           total_orders |-> NULL, on_time_deliveries |-> NULL,
           on_time_percentage |-> NULL ]

\* get_all_roles_status lines 434-471: for index, role in enumerate(ROLE_ORDER)
get_all_roles_status(operation_date, batch) ==
    LET operations == get_batch_operations(operation_date, batch)
    IN  [ i \in 1..TOTAL_ROLES |->
            RoleStatusResponse(op_map_get(operations, ROLE_ORDER[i]),
                               ROLE_ORDER[i], i - 1) ]

\* get_batch_with_roles lines 155-180
get_batch_with_roles(operation_date, batch) ==
    LET st == BatchStatusResponse(batch, started_count(operation_date, batch),
                                  completed_count(operation_date, batch))
    IN  [ batch |-> batch, operation_date |-> operation_date,
          status |-> st.status, is_readonly |-> is_past_date(operation_date),
          started_count |-> st.started_count,
          completed_count |-> st.completed_count,
          total_roles |-> st.total_roles,
          progress_percentage |-> st.progress_percentage,
          roles |-> get_all_roles_status(operation_date, batch) ]

\* GET /batches/{batch}/roles; the three reads are taken in one step
GetBatchRoles(p, d, b) ==
    /\ Idle(p)
    /\ UNCHANGED << store, today, now, started >>
    /\ LET c == QueryCall("batch_roles", d, b, NoRole)
       IN  IF b \notin SeqToSet(get_available_batches_for_date(d))
           THEN Return(p, c, Failure(BATCH_NOT_FOUND))
           ELSE Return(p, c, QueryResult("batch_roles", get_batch_with_roles(d, b)))

\* ------------------------------------------------- authentication
\* settings.jwt_expiration_hours, in clock readings
jwt_expiration_hours == 1

\* a string that is no token the server signed
BadToken == [ sub |-> NULL, exp |-> NULL, iat |-> NULL ]

\* security.py create_access_token: the signed claims sub, exp and iat
create_access_token(user_id) ==
    [ sub |-> user_id, exp |-> now + jwt_expiration_hours, iat |-> now ]

\* the tokens a client can present: those it was handed, and a string of
\* its own making
Presented == tokens \cup {BadToken}

\* every token the server can sign, and the string that is none
AllTokens ==
    { [ sub |-> u, exp |-> t + jwt_expiration_hours, iat |-> t ] :
          u \in Users, t \in 0..MaxTime } \cup {BadToken}

\* security.py verify_token: the payload of a token the server signed that
\* has not expired, None otherwise
verify_token(token) ==
    IF token # BadToken /\ token.exp >= now THEN token ELSE BadToken

\* security.py get_token_hash: SHA-256 of the token
get_token_hash(token) == << "sha256", token >>

\* get_user_by_id: the users table holds every user of Users
get_user_by_id(user_id) == IF user_id \in Users THEN user_id ELSE NULL

\* auth_middleware.py get_current_user lines 84-108: the user of a valid
\* token, None (raised as 401) otherwise; user_sessions is not consulted
get_current_user(token) ==
    LET payload == verify_token(token)
    IN  IF payload = BadToken THEN NULL ELSE get_user_by_id(payload.sub)

\* the step of an authentication request: it answers res
AuthStep(res) ==
    /\ response' = res
    /\ UNCHANGED << store, today, now, pc, call, op, flushed, pending, prev_op,
                    scan, started >>

\* a free id for a new row of user_sessions
SessionId == CHOOSE i \in 1..MaxSessions : \A x \in user_sessions : x.id # i

\* login_user with valid credentials, _create_user_token lines 294-310
Login(u) ==
    /\ Cardinality(user_sessions) < MaxSessions
    /\ LET token == create_access_token(u)
       IN  /\ user_sessions' = user_sessions \cup
                  { [ id |-> SessionId, user_id |-> u,
                      token_hash |-> get_token_hash(token),
                      expires_at |-> now + jwt_expiration_hours ] }
           /\ tokens' = tokens \cup {token}
           /\ AuthStep([ NoResponse EXCEPT !.success = TRUE,
                                           !.message = LOGIN_SUCCESS,
                                           !.data = "token" ])
    /\ UNCHANGED logged_out

\* routers/auth.py logout and logout_user lines 163-175: the session row of
\* the token, if there is one, is deleted; the answer is success either way
Logout(token) ==
    /\ token \in Presented
    /\ LET current_user == get_current_user(token)
           found == { x \in user_sessions :
                        /\ x.user_id = current_user
                        /\ x.token_hash = get_token_hash(token) }
       IN  IF current_user = NULL
           THEN /\ AuthStep(Failure(INVALID_TOKEN))
                /\ UNCHANGED auth_vars
           ELSE /\ user_sessions' =
                       IF found = {} THEN user_sessions
                       ELSE user_sessions \ {CHOOSE x \in found : TRUE}
                /\ logged_out' = logged_out \cup {token}
                /\ AuthStep([ NoResponse EXCEPT !.success = TRUE,
                                                !.message = LOGOUT_SUCCESS,
                                                !.data = "None" ])
                /\ UNCHANGED tokens

\* logout_user lines 177-179: the storage fails, db.rollback()
LogoutFailure(token) ==
    /\ token \in Presented
    /\ get_current_user(token) # NULL
    /\ AuthStep([ NoResponse EXCEPT !.message = "Logout failed", !.data = "None" ])
    /\ UNCHANGED auth_vars

\* a request of an operation handler that presents a token: Depends(
\* get_current_user) answers 401 or hands the handler the user
Unauthenticated(p, kind) ==
    /\ Idle(p)
    /\ UNCHANGED << store, today, now, started >>
    /\ Return(p, [ NoCall EXCEPT !.kind = kind ], Failure(INVALID_TOKEN))

AuthStartOperation(p, token, d, b, r) ==
    /\ token \in Presented
    /\ IF get_current_user(token) = NULL THEN Unauthenticated(p, "start")
       ELSE StartOperation(p, get_current_user(token), d, b, r)

AuthEndOperation(p, token, d, b, r) ==
    /\ token \in Presented
    /\ IF get_current_user(token) = NULL THEN Unauthenticated(p, "end")
       ELSE EndOperation(p, get_current_user(token), d, b, r)

\* the clock, and the requests processes P make as users U on roles R
Clock == Tick \/ AdvanceDay

Starts(P, U, R) ==
    \/ \E p \in P, u \in U, d \in InputDates, b \in InputBatches, r \in R :
           StartOperation(p, u, d, b, r)
    \/ \E p \in P : StartInsert(p)
    \/ \E p \in P : StartCheckPrevious(p)
    \/ \E p \in P : StartCommit(p)

Ends(P, U, R) ==
    \/ \E p \in P, u \in U, d \in InputDates, b \in InputBatches, r \in R :
           EndOperation(p, u, d, b, r)
    \/ \E p \in P : EndCommit(p)

DriverEnds(P, U) ==
    \/ \E p \in P, u \in U, d \in InputDates, b \in InputBatches,
          total_orders \in Counts, on_time_deliveries \in Counts :
           EndDriverOperation(p, u, d, b, total_orders, on_time_deliveries)
    \/ \E p \in P : DriverScan(p)
    \/ \E p \in P : DriverCommit(p)

Inits(P) ==
    \/ \E p \in P, d \in InputDates, b \in InputBatches : InitializeBatch(p, d, b)
    \/ \E p \in P : InitCommit(p)

Failures(P) == \E p \in P : StorageFailure(p)

\* concurrent requests of several users on the first role of a batch
Next ==
    Clock \/ Starts(Procs, Users, {ROLE_ORDER[1]})
        \/ Ends(Procs, Users, {ROLE_ORDER[1]})
        \/ Inits(Procs) \/ Failures(Procs)

Spec == Init /\ [][Next]_vars

\* one request at a time, of one user, on every input role
SeqNext ==
    Clock \/ Starts({1}, {1}, InputRoles) \/ Ends({1}, {1}, EndRoles)
        \/ DriverEnds({1}, {1}) \/ Inits({1}) \/ Failures({1})

SeqSpec == Init /\ [][SeqNext]_vars

\* concurrent requests of one user on the Driver role of a batch
DriverNext ==
    Clock \/ Starts(Procs, {1}, {DRIVER_ROLE}) \/ DriverEnds(Procs, {1})
        \/ Inits(Procs) \/ Failures(Procs)

DriverSpec == Init /\ [][DriverNext]_vars

\* the timing engine on its own: one caller that hands the Driver's service
\* methods any counts
EngineDriverEnds(P, U) ==
    \/ \E p \in P, u \in U, d \in InputDates, b \in InputBatches,
          total_orders \in RawCounts, on_time_deliveries \in RawCounts :
           EngineEndDriver(p, u, d, b, total_orders, on_time_deliveries)
    \/ \E p \in P : DriverScan(p)
    \/ \E p \in P : DriverCommit(p)

EngineNext ==
    Clock \/ Starts({1}, {1}, {DRIVER_ROLE}) \/ EngineDriverEnds({1}, Users)
        \/ Failures({1})

EngineSpec == Init /\ [][EngineNext]_vars

\* the queries processes P make
BatchDetails(P) ==
    \/ \E p \in P, d \in InputDates, b \in InputBatches : GetBatchDetail(p, d, b)
    \/ \E p \in P : CountCompleted(p)

CheckPrevious(P) ==
    \E p \in P, d \in InputDates, b \in InputBatches, r \in VALID_ROLES :
        CheckPreviousRole(p, d, b, r)

BatchRoles(P) ==
    \E p \in P, d \in InputDates, b \in InputBatches : GetBatchRoles(p, d, b)

\* the dates the calendar is asked about: more than one week
CalendarDates == 1..(MaxDate + 7)

\* the batches whose Driver rows a summary adds up: two more than
\* InputBatches, as far as there are any
SummaryBatches ==
    { ALL_BATCHES[i] : i \in { j \in 1..Len(ALL_BATCHES) :
                                  j >= Len(ALL_BATCHES) - NumBatches - 1 } }

\* one request at a time on the Driver rows of several batches, with the
\* calendar and summary queries in between; the server clock stands still
SummaryNext ==
    \/ AdvanceDay
    \/ \E d \in InputDates, b \in SummaryBatches :
           StartOperation(1, 1, d, b, DRIVER_ROLE)
    \/ StartInsert(1)
    \/ StartCheckPrevious(1)
    \/ StartCommit(1)
    \/ \E d \in InputDates, b \in SummaryBatches,
          total_orders \in Counts, on_time_deliveries \in Counts :
           EndDriverOperation(1, 1, d, b, total_orders, on_time_deliveries)
    \/ DriverScan(1)
    \/ DriverCommit(1)
    \/ StorageFailure(1)
    \/ \E d \in InputDates : GetDailySummary(1, d)
    \/ \E d \in CalendarDates : GetBatches(1, d)

SummarySpec == Init /\ [][SummaryNext]_vars

\* the role a team working through the sequence turns to next: the first
\* one, in ROLE_ORDER, that is not completed (None when all are)
NextRole(d, b) ==
    LET open == { i \in 1..TOTAL_ROLES :
                    \/ get_operation(d, b, ROLE_ORDER[i]) = NoRow
                    \/ get_operation(d, b, ROLE_ORDER[i]).end_time = NULL }
    IN  IF open = {} THEN NoRole
        ELSE ROLE_ORDER[CHOOSE i \in open : \A j \in open : i <= j]

FlowRoles ==
    { NextRole(d, b) : d \in InputDates, b \in InputBatches } \ {NoRole}

\* one request at a time, of one user, the roles taken in sequence, with the
\* status and previous-role queries in between
FlowNext ==
    Clock \/ Starts({1}, {1}, FlowRoles)
        \/ Ends({1}, {1}, FlowRoles \ {DRIVER_ROLE})
        \/ DriverEnds({1}, {1}) \/ Failures({1})
        \/ BatchDetails({1}) \/ CheckPrevious({1}) \/ BatchRoles({1})

FlowSpec == Init /\ [][FlowNext]_vars

\* one client at a time that logs in and out and presents its tokens to the
\* start and end handlers of the first role
AuthNext ==
    \/ Clock
    \/ Login(1)
    \/ \E token \in AllTokens : Logout(token)
    \/ \E token \in AllTokens : LogoutFailure(token)
    \/ \E token \in AllTokens, d \in InputDates, b \in InputBatches :
           AuthStartOperation(1, token, d, b, ROLE_ORDER[1])
    \/ StartInsert(1)
    \/ StartCheckPrevious(1)
    \/ StartCommit(1)
    \/ \E token \in AllTokens, d \in InputDates, b \in InputBatches :
           AuthEndOperation(1, token, d, b, ROLE_ORDER[1])
    \/ EndCommit(1)
    \/ StorageFailure(1)

AuthSpec == Init /\ [][AuthNext]_vars

\* a status request of one session while another serves start and end
\* requests on the first role
StatusNext ==
    Clock \/ BatchDetails({1})
        \/ Starts(Procs \ {1}, {1}, {ROLE_ORDER[1]})
        \/ Ends(Procs \ {1}, {1}, {ROLE_ORDER[1]})
        \/ Failures(Procs)

StatusSpec == Init /\ [][StatusNext]_vars

\* the server is started on day 1, a Monday: the first input date is the
\* current date and a restricted day
MondayInit ==
    /\ store = {}
    /\ today = 1
    /\ now = 0
    /\ pc = [p \in Procs |-> "idle"]
    /\ call = [p \in Procs |-> NoCall]
    /\ op = [p \in Procs |-> NoId]
    /\ flushed = [p \in Procs |-> FALSE]
    /\ pending = [p \in Procs |-> {}]
    /\ prev_op = [p \in Procs |-> "unread"]
    /\ scan = [p \in Procs |-> NoScan]
    /\ response = NoResponse
    /\ started = {}
    /\ user_sessions = {}
    /\ tokens = {}
    /\ logged_out = {}

\* one request at a time from a Monday on
WeekSpec == MondayInit /\ [][SeqNext]_vars

\* midnight passes while no request is being served
QuietAdvanceDay == (\A p \in Procs : Idle(p)) /\ AdvanceDay

\* one request at a time, none of them under way at midnight: the current
\* date is the same at every statement of a request
FrozenNext ==
    Tick \/ QuietAdvanceDay
        \/ Starts({1}, {1}, InputRoles) \/ Ends({1}, {1}, EndRoles)
        \/ DriverEnds({1}, {1}) \/ Inits({1}) \/ Failures({1})

FrozenSpec == Init /\ [][FrozenNext]_vars

\* ------------------------------------------------- reading a step
\* request p entered its handler in this step
Entered(p) == pc[p] = "idle" /\ (pc'[p] # "idle" \/ response'.proc = p)

\* the call it entered with
EnteredCall(p) == IF pc'[p] # "idle" THEN call'[p] ELSE response'.call

\* the message the handler answered with in the same step ("": none yet)
Answer(p) == IF pc'[p] # "idle" THEN "" ELSE response'.message

\* the committed row of a call's key
RowOf(c) == get_operation(c.operation_date, c.batch, c.role)

\* the request passed the validation of its schema (DriverEnd: the counts)
SchemaValid(c) ==
    c.kind = "end_driver" =>
        validate_order_counts(c.total_orders, c.on_time_deliveries)

\* routers/operations.py start_operation: the failure is raised as 409 with
\* started_by and started_at, and as 400 with the message alone otherwise
StartConflict(res) == res.data = "error" /\ res.error = "ALREADY_STARTED"

\* ------------------------------------------------- C1
\* C1: in every reachable state at most one row of operations_log exists for
\* each (operation_date, batch, operation_role), whatever the interleaving
\* of start, end and initialize_batch requests.
C1_OneRecordPerKey ==
    \A o1, o2 \in store :
        SameKey(o1, o2.operation_date, o2.batch, o2.operation_role) => o1 = o2

\* two sessions insert the same key: one holds the flushed row, the other
\* has read no row and is about to send its INSERT
C1_Witness ==
    \E p, q \in Procs :
        /\ p # q
        /\ flushed[p]
        /\ pc[q] \in {"start_insert", "init_commit"}
        /\ call[q].operation_date = call[p].operation_date
        /\ call[q].batch = call[p].batch
        /\ (call[q].role = call[p].role \/ call[p].role \in pending[q])

\* ------------------------------------------------- C2
\* C2: of the start requests made for one (date, batch, role), also
\* concurrently and also on a PENDING row that initialize_batch created, exactly
\* one succeeds (the others are told the operation was already started).
C2_OneStartSucceeds ==
    \A x, y \in started :
        (x[2] = y[2] /\ x[3] = y[3] /\ x[4] = y[4]) => x = y

\* ------------------------------------------------- C3
\* C3: once a row's start_time is set, no step changes its start_time or its
\* started_by_user_id.
C3_StartImmutable ==
    [][\A o \in store :
           o.start_time # NULL =>
               \E n \in store' :
                   /\ n.id = o.id
                   /\ n.start_time = o.start_time
                   /\ n.started_by_user_id = o.started_by_user_id]_vars

\* ------------------------------------------------- C4
\* C4: once a row's end_time is set, no step changes its end_time or its
\* completed_by_user_id, and an end request entered on it (on a date that is
\* not read-only) is answered "already completed".
C4_EndImmutable ==
    [][\A o \in store :
           o.end_time # NULL =>
               /\ \E n \in store' :
                      /\ n.id = o.id
                      /\ n.end_time = o.end_time
                      /\ n.completed_by_user_id = o.completed_by_user_id
               /\ \A p \in Procs :
                      (/\ Entered(p)
                       /\ EnteredCall(p).kind \in {"end", "end_driver"}
                       /\ SameKey(o, EnteredCall(p).operation_date,
                                  EnteredCall(p).batch, EnteredCall(p).role)
                       /\ ~(EnteredCall(p).operation_date < today)
                       /\ (EnteredCall(p).kind = "end_driver" =>
                               EnteredCall(p).on_time_deliveries
                                   <= EnteredCall(p).total_orders))
                      => Answer(p) = OPERATION_ALREADY_COMPLETED]_vars

\* ------------------------------------------------- C5
\* the derived status of the row with this id ("PENDING" while it has no row)
StatusById(rows, id) ==
    IF \E o \in rows : o.id = id
    THEN status(CHOOSE o \in rows : o.id = id)
    ELSE "PENDING"

\* C5: a row's derived status changes only from PENDING to IN_PROGRESS, in a
\* step that answers a start request with success, and from IN_PROGRESS to
\* COMPLETED, in a step that answers an end request with success; no row
\* disappears.
C5_StatusTransitions ==
    [][\A id \in { o.id : o \in store \cup store' } :
           LET before == StatusById(store, id)
               after == StatusById(store', id)
           IN  \/ before = after
               \/ /\ before = "PENDING" /\ after = "IN_PROGRESS"
                  /\ response'.success /\ response'.call.kind = "start"
               \/ /\ before = "IN_PROGRESS" /\ after = "COMPLETED"
                  /\ response'.success
                  /\ response'.call.kind \in {"end", "end_driver"}]_vars

\* a row that initialize_batch created PENDING has been started and completed
C5_Witness ==
    /\ response.success
    /\ response.call.kind = "end"
    /\ status(RowOf(response.call)) = "COMPLETED"
    /\ \E o \in store : o.operation_role # response.call.role

\* ------------------------------------------------- C6
\* C6: an end or driver-end request on a date that is not read-only is answered
\* "not started" when the key has no row or a row with start_time null, and
\* "already completed" when end_time is set; the two messages differ, and
\* neither answer comes with a change of the store.
C6_NotStartedOrCompleted ==
    [][\A p \in Procs :
           (/\ Entered(p)
            /\ EnteredCall(p).kind \in {"end", "end_driver"}
            /\ SchemaValid(EnteredCall(p))
            /\ ~(EnteredCall(p).operation_date < today))
           => LET o == RowOf(EnteredCall(p))
              IN  /\ (o = NoRow \/ o.start_time = NULL)
                         => (Answer(p) = OPERATION_NOT_STARTED /\ store' = store)
                  /\ (o # NoRow /\ o.end_time # NULL)
                         => (Answer(p) = OPERATION_ALREADY_COMPLETED
                                 /\ store' = store)
                  /\ OPERATION_NOT_STARTED # OPERATION_ALREADY_COMPLETED]_vars

\* a driver-end request on a PENDING row was answered "not started"
C6_Witness ==
    /\ response.call.kind = "end_driver"
    /\ response.message = OPERATION_NOT_STARTED
    /\ RowOf(response.call) # NoRow
    /\ RowOf(response.call).start_time = NULL
    /\ \E o \in store : o.end_time # NULL

\* ------------------------------------------------- C7
\* C7 as stated: every start, end or driver-end request on a date before the
\* server's date, whatever its batch and role, is answered "read only" and
\* leaves the store unchanged.
C7_PastDateReadOnly ==
    [][\A p \in Procs :
           (/\ Entered(p)
            /\ EnteredCall(p).kind \in {"start", "end", "end_driver"}
            /\ SchemaValid(EnteredCall(p))
            /\ EnteredCall(p).operation_date < today)
           => (Answer(p) = READONLY_DATE /\ store' = store)]_vars

\* C7 amended: such a request leaves the store unchanged; it is answered
\* "read only", except a start request for a batch not offered on that date,
\* which is answered "not available".
C7_PastDateNoWrite ==
    [][\A p \in Procs :
           (/\ Entered(p)
            /\ EnteredCall(p).kind \in {"start", "end", "end_driver"}
            /\ SchemaValid(EnteredCall(p))
            /\ EnteredCall(p).operation_date < today)
           => /\ store' = store
              /\ Answer(p) =
                     IF /\ EnteredCall(p).kind = "start"
                        /\ ~is_batch_available(EnteredCall(p).operation_date,
                                               EnteredCall(p).batch)
                     THEN BATCH_NOT_AVAILABLE
                     ELSE READONLY_DATE]_vars

\* a start request on a past date that has a PENDING row was refused
C7_Witness ==
    /\ response.call.kind = "start"
    /\ response.call.operation_date < today
    /\ response.message = READONLY_DATE
    /\ RowOf(response.call) # NoRow
    /\ RowOf(response.call).start_time = NULL

\* ------------------------------------------------- C8
\* C8: a start request for batch D on a Monday or a Thursday (the one batch
\* and the days on which a batch is not offered) is answered "not available"
\* and leaves the store unchanged.
C8_NotAvailable ==
    [][\A p \in Procs :
           (/\ Entered(p)
            /\ EnteredCall(p).kind = "start"
            /\ EnteredCall(p).batch = "D"
            /\ EnteredCall(p).operation_date % 7 \in {1, 4})
           => (Answer(p) = BATCH_NOT_AVAILABLE /\ store' = store)]_vars

\* a start request was refused as not available while the table has rows
C8_Witness ==
    /\ response.call.kind = "start"
    /\ response.message = BATCH_NOT_AVAILABLE
    /\ response.call.batch = "D"
    /\ response.call.operation_date % 7 \in {1, 4}
    /\ store # {}

\* ------------------------------------------------- C9
\* C9: every start request answered "already started" is answered as a
\* conflict that carries who started the operation and when.
C9_ConflictCarriesWho ==
    (response.call.kind = "start" /\ response.message = OPERATION_ALREADY_STARTED)
        => /\ StartConflict(response)
           /\ response.started_by # NULL
           /\ response.started_at # NULL

\* ------------------------------------------------- C10
\* C10: a start request that succeeds carries a warning naming the previous
\* role exactly when the role has a previous role whose row, for the same
\* date and batch, is absent or has end_time null.
C10_WarningIffPreviousOpen ==
    [][\A p \in Procs :
           (pc[p] = "start_commit" /\ response'.proc = p /\ response'.success)
           => LET previous_role == get_previous_role(call[p].role)
                  previous == get_operation(call[p].operation_date,
                                            call[p].batch, previous_role)
              IN  response'.warning =
                      IF /\ previous_role # NoRole
                         /\ (previous = NoRow \/ previous.end_time = NULL)
                      THEN previous_role
                      ELSE ""]_vars

\* ------------------------------------------------- C11
\* C11: a start request that succeeds carries a previous-role warning exactly
\* when check_previous_role, evaluated on the store the request ran against,
\* reports show_warning.
C11_CheckAgreesWithStart ==
    [][\A p \in Procs :
           (pc[p] = "start_commit" /\ response'.proc = p /\ response'.success)
           => ((response'.warning # "") =
                   check_previous_role(call[p].operation_date, call[p].batch,
                                       call[p].role).show_warning)]_vars

C13_EngineRechecksCounts ==
    [][\A p \in Procs :
           /\ (/\ Entered(p)
               /\ EnteredCall(p).kind = "end_driver"
               /\ ~SchemaValid(EnteredCall(p))
               /\ ~(EnteredCall(p).operation_date < today)
               /\ status(RowOf(EnteredCall(p))) = "IN_PROGRESS")
              => Answer(p) = VALIDATION_ERROR
           /\ (/\ response'.proc = p
               /\ response'.call.kind = "end_driver"
               /\ ~SchemaValid(response'.call))
              => (~response'.success /\ store' = store)]_vars

\* ------------------------------------------------- C14
\* C14: in every reachable state a row has total_orders or on_time_deliveries
\* set only if it is a Driver row with end_time set, and every Driver row
\* with end_time set has both, with 0 <= on_time_deliveries <= total_orders.
C14_DriverStats ==
    \A o \in store :
        /\ (o.total_orders # NULL \/ o.on_time_deliveries # NULL)
               => (o.operation_role = DRIVER_ROLE /\ o.end_time # NULL)
        /\ (o.operation_role = DRIVER_ROLE /\ o.end_time # NULL)
               => /\ o.total_orders # NULL
                  /\ o.on_time_deliveries # NULL
                  /\ 0 <= o.on_time_deliveries
                  /\ o.on_time_deliveries <= o.total_orders

\* a Driver row was completed with deliveries while another driver-end
\* request on it is still in flight, next to rows of other roles
C14_Witness ==
    /\ \E o \in store :
           /\ o.operation_role = DRIVER_ROLE
           /\ o.end_time # NULL
           /\ o.total_orders > 0
           /\ \E p \in Procs : pc[p] = "driver_scan" /\ op[p] = o.id
    /\ \E o \in store : o.operation_role # DRIVER_ROLE

\* ------------------------------------------------- C15
\* C15: a driver-end request that succeeds completes the Driver row and lists
\* exactly the roles other than the Driver that have no row or a row with
\* end_time null for its date and batch, in the order of the role sequence;
\* it carries a warning exactly when that list is not empty.
C15_DriverWarningList ==
    [][\A p \in Procs :
           (pc[p] = "driver_scan" /\ response'.proc = p /\ response'.success)
           => LET open == { r \in VALID_ROLES \ {DRIVER_ROLE} :
                              \A o \in store :
                                  SameKey(o, call[p].operation_date,
                                          call[p].batch, r)
                                      => o.end_time = NULL }
              IN  /\ response'.incomplete =
                         SelectSeq(ROLE_ORDER, LAMBDA r : r \in open)
                  /\ (response'.warning # "") = (open # {})
                  /\ \E o \in store' :
                         /\ SameKey(o, call[p].operation_date, call[p].batch,
                                    DRIVER_ROLE)
                         /\ o.end_time # NULL]_vars

\* a driver-end request succeeded while one other role was completed, one
\* was open and the rest had no row
C15_Witness ==
    /\ response.success
    /\ response.call.kind = "end_driver"
    /\ Len(response.incomplete) = TOTAL_ROLES - 2
    /\ \E o \in store : o.operation_role # DRIVER_ROLE /\ o.end_time = NULL
    /\ Cardinality(store) = 3

\* ------------------------------------------------- C16
\* C16: a batch status computed on a store is RED iff no row of the date and
\* batch has start_time set, GREEN iff one has and the rows with end_time set
\* number TOTAL_ROLES, YELLOW otherwise; its progress (in hundredths of a
\* percent) is the hundredth nearest to 100 * completed / TOTAL_ROLES, 0 when
\* nothing is completed and 10000 when every role is.
C16_BatchStatus ==
    response.data = "batch_status"
    => LET rows == { o \in store :
                       /\ o.operation_date = response.call.operation_date
                       /\ o.batch = response.call.batch }
           s == Cardinality({ o \in rows : o.start_time # NULL })
           c == Cardinality({ o \in rows : o.end_time # NULL })
           r == response.result
           diff == r.progress_percentage * TOTAL_ROLES - c * 10000
       IN  /\ r.status \in {"RED", "YELLOW", "GREEN"}
           /\ (r.status = "RED") = (s = 0)
           /\ (r.status = "GREEN") = (s >= 1 /\ c = TOTAL_ROLES)
           /\ 2 * diff <= TOTAL_ROLES /\ 0 - 2 * diff <= TOTAL_ROLES
           /\ c = 0 => r.progress_percentage = 0
           /\ c = TOTAL_ROLES => r.progress_percentage = 10000

\* the status of a batch with every role completed was computed
C16_Witness ==
    /\ response.data = "batch_status"
    /\ response.result.status = "GREEN"
    /\ response.result.completed_count = TOTAL_ROLES

RECURSIVE SumColumn(_, _)
SumColumn(rows, column) ==
    IF rows = {} THEN 0
    ELSE LET o == CHOOSE x \in rows : TRUE
         IN  (IF o[column] = NULL THEN 0 ELSE o[column])
                 + SumColumn(rows \ {o}, column)

\* C18: a daily summary reports the sums of total_orders and of
\* on_time_deliveries over the Driver rows of the batches offered on its date
\* (absent when the sum is 0); its overall_on_time_percentage (in hundredths
\* of a percent) is absent exactly when the summed total_orders is 0, and is
\* otherwise the hundredth nearest to 100 * on_time / total, so 0 when no
\* delivery was on time.
C18_DailySummary ==
    response.data = "daily_summary"
    => LET d == response.call.operation_date
           offered == IF d % 7 \in {1, 4} THEN {"A", "B", "C"}
                      ELSE {"A", "B", "C", "D"}
           drivers == { o \in store : /\ o.operation_date = d
                                      /\ o.operation_role = DRIVER_ROLE
                                      /\ o.batch \in offered }
           total == SumColumn(drivers, "total_orders")
           on_time == SumColumn(drivers, "on_time_deliveries")
           r == response.result
           diff == r.overall_on_time_percentage * total - on_time * 10000
       IN  /\ r.total_orders_delivered = IF total > 0 THEN total ELSE NULL
           /\ r.total_on_time_deliveries = IF on_time > 0 THEN on_time ELSE NULL
           /\ (r.overall_on_time_percentage = NULL) = (total = 0)
           /\ total > 0 => (2 * diff <= total /\ 0 - 2 * diff <= total)
           /\ (total > 0 /\ on_time = 0) => r.overall_on_time_percentage = 0

\* a summary over three completed Driver rows, two deliveries of three on
\* time: 66.67 percent
C18_Witness ==
    /\ response.data = "daily_summary"
    /\ response.result.total_orders_delivered = 3
    /\ response.result.overall_on_time_percentage = 6667

\* ------------------------------------------------- C19
\* C19: the batches listed for a date are A, B, C when the date is a Monday or
\* a Thursday and A, B, C, D on every other day, and two dates that fall on
\* the same weekday are offered the same batches.
C19_AvailableBatches ==
    /\ response.data = "batches"
       => [ i \in DOMAIN response.result.batches |->
                response.result.batches[i].batch ]
              = IF response.call.operation_date % 7 \in {1, 4}
                THEN << "A", "B", "C" >>
                ELSE << "A", "B", "C", "D" >>
    /\ \A d1, d2 \in CalendarDates :
           d1 % 7 = d2 % 7
               => get_available_batches_for_date(d1)
                      = get_available_batches_for_date(d2)

\* the batches of a Thursday were listed
C19_Witness ==
    /\ response.data = "batches"
    /\ response.call.operation_date % 7 = 4
    /\ Len(response.result.batches) = 3

\* ------------------------------------------------- C20
\* C20: check_previous_role answers, for the first role of the sequence, no
\* previous role, is_previous_completed true and show_warning false, whatever
\* the store holds; for every other role show_warning is the negation of
\* is_previous_completed; a warning message is present iff show_warning.
C20_CheckPreviousRole ==
    response.data = "check_previous"
    => LET r == response.result
       IN  /\ response.call.role = ROLE_ORDER[1]
                  => /\ r.previous_role = NoRole
                     /\ r.is_previous_completed
                     /\ ~r.show_warning
           /\ response.call.role # ROLE_ORDER[1]
                  => /\ r.previous_role # NoRole
                     /\ r.show_warning = ~r.is_previous_completed
           /\ (r.warning_message # "") = r.show_warning

\* the check for the first role was answered on a store that holds a
\* completed row and an open one
C20_Witness ==
    /\ response.data = "check_previous"
    /\ response.call.role = ROLE_ORDER[1]
    /\ \E o \in store : o.end_time = NULL
    /\ \E o \in store : o.end_time # NULL

\* ------------------------------------------------- C21
\* C21: the role list of an available batch has one entry per role of the
\* sequence, in sequence order, numbered 1..N; the entry of a role with no row
\* is PENDING with every field empty, and the entry of a role with a row shows
\* the status that row's start_time and end_time give (COMPLETED when end_time
\* is set, else IN_PROGRESS when start_time is set, else PENDING).
C21_BatchRoles ==
    response.data = "batch_roles"
    => LET roles == response.result.roles
           d == response.call.operation_date
           b == response.call.batch
       IN  /\ Len(roles) = TOTAL_ROLES
           /\ \A i \in 1..TOTAL_ROLES :
                  /\ roles[i].role = ROLE_ORDER[i]
                  /\ roles[i].order = i
                  /\ (~\E o \in store : SameKey(o, d, b, ROLE_ORDER[i]))
                         => /\ roles[i].status = "PENDING"
                            /\ \A f \in DOMAIN roles[i] \ {"role", "order", "status"} :
                                   roles[i][f] = NULL
                  /\ \A o \in store :
                         SameKey(o, d, b, ROLE_ORDER[i])
                             => roles[i].status =
                                    IF o.end_time # NULL THEN "COMPLETED"
                                    ELSE IF o.start_time # NULL THEN "IN_PROGRESS"
                                    ELSE "PENDING"

\* a role list with a completed role, a role in progress and a role with no row
C21_Witness ==
    /\ response.data = "batch_roles"
    /\ \E i, j, k \in 1..TOTAL_ROLES :
           /\ response.result.roles[i].status = "COMPLETED"
           /\ response.result.roles[j].status = "IN_PROGRESS"
           /\ ~\E o \in store : SameKey(o, response.call.operation_date,
                                        response.call.batch, ROLE_ORDER[k])

\* ------------------------------------------------- C22
\* C22: once a logout with a token has been answered with success, every
\* later start, end or logout request that presents that token is answered as
\* unauthenticated.
C22_LogoutRevokes ==
    [][\A token \in logged_out, p \in Procs, d \in InputDates,
          b \in InputBatches, r \in VALID_ROLES :
           ( \/ AuthStartOperation(p, token, d, b, r)
             \/ AuthEndOperation(p, token, d, b, r)
             \/ Logout(token) )
               => response'.message = INVALID_TOKEN]_vars

\* ------------------------------------------------- C23
\* C23: in every reachable state, also after the storage failed under any
\* statement of a start, end or Driver end request, a row has start_time set
\* iff it has started_by_user_id set, and end_time set iff it has
\* completed_by_user_id set.
C23_NoPartialWrite ==
    \A o \in store :
        /\ (o.start_time # NULL) = (o.started_by_user_id # NULL)
        /\ (o.end_time # NULL) = (o.completed_by_user_id # NULL)

\* the storage failed under a Driver end request that had passed its checks:
\* the row it was about to complete is left in progress
C23_Witness ==
    /\ response.call.kind = "end_driver"
    /\ response.message = FAILED_TO_COMPLETE_DRIVER
    /\ RowOf(response.call) # NoRow
    /\ RowOf(response.call).start_time # NULL
    /\ RowOf(response.call).end_time = NULL
    /\ \E o \in store : o.end_time # NULL

\* ------------------------------------------------- C24
\* C24: in every reachable state every row with end_time set has start_time
\* set and end_time >= start_time, whatever the interleaving of start and end
\* requests on its key, also when a start overlaps an end on a row that
\* initialize_batch created.
C24_EndAfterStart ==
    \A o \in store :
        o.end_time # NULL
            => (o.start_time # NULL /\ o.end_time >= o.start_time)

\* a start request that read the row while it was PENDING is about to write
\* its start_time, and the row has meanwhile been started by another request
\* and completed at an earlier clock reading
C24_Witness ==
    \E p \in Procs :
        /\ pc[p] = "start_commit"
        /\ ~flushed[p]
        /\ RowById(op[p]).end_time # NULL
        /\ RowById(op[p]).end_time < now

\* ------------------------------------------------- C25
\* C25: no step deletes a row of operations_log or changes the
\* (operation_date, batch, operation_role) of an existing one, and a row is
\* written by at most one start and at most one end: a start request succeeds
\* only on a row whose start_time is not set yet, an end request only on a row
\* whose end_time is not set yet.
C25_WrittenOnce ==
    [][\A o \in store :
           /\ \E n \in store' :
                  /\ n.id = o.id
                  /\ SameKey(n, o.operation_date, o.batch, o.operation_role)
           /\ ( /\ response'.success
                /\ response'.call.kind = "start"
                /\ SameKey(o, response'.call.operation_date,
                           response'.call.batch, response'.call.role) )
                  => o.start_time = NULL
           /\ ( /\ response'.success
                /\ response'.call.kind \in {"end", "end_driver"}
                /\ SameKey(o, response'.call.operation_date,
                           response'.call.batch, response'.call.role) )
                  => o.end_time = NULL]_vars

\* the part of C25 that no interleaving breaks: rows are never deleted and
\* keep their key
C25_KeysOnlyGrow ==
    [][\A o \in store :
           \E n \in store' :
               /\ n.id = o.id
               /\ SameKey(n, o.operation_date, o.batch, o.operation_role)]_vars

\* ------------------------------------------------- C26
\* C26: a start request is answered "already started" only when the row of
\* its key has start_time set; a start that loses the unique index to
\* initialize_batch, the row still PENDING, is not answered so.
C26_AlreadyStartedMeansStarted ==
    ( /\ response.call.kind = "start"
      /\ response.message = OPERATION_ALREADY_STARTED )
        => ( /\ RowOf(response.call) # NoRow
             /\ RowOf(response.call).start_time # NULL )

\* ------------------------------------------------- C27
\* C27: every batch status response has completed_count <= started_count <=
\* total_roles and is not RED with a completed_count above 0, also when start
\* and end requests on the batch commit between its two count queries.
C27_CountsConsistent ==
    response.data = "batch_status"
    => LET r == response.result
       IN  /\ r.completed_count <= r.started_count
           /\ r.started_count <= r.total_roles
           /\ ~(r.status = "RED" /\ r.completed_count > 0)

\* ------------------------------------------------- C28
\* the rows of a date and batch that have the column set
CountSet(rows, d, b, column) ==
    Cardinality({ o \in rows : /\ o.operation_date = d /\ o.batch = b
                               /\ o[column] # NULL })

\* the status a date and batch have in a set of rows
StatusIn(rows, d, b) ==
    IF CountSet(rows, d, b, "start_time") = 0 THEN "RED"
    ELSE IF CountSet(rows, d, b, "end_time") = Len(ROLE_ORDER) THEN "GREEN"
    ELSE "YELLOW"

\* C28: for every date and batch, no step lowers the number of started rows
\* or of completed rows in the store; a batch that is YELLOW is not RED after
\* the step, and a batch that is GREEN is GREEN after it.
C28_StatusMonotone ==
    [][\A d \in InputDates, b \in InputBatches :
           /\ CountSet(store', d, b, "start_time")
                  >= CountSet(store, d, b, "start_time")
           /\ CountSet(store', d, b, "end_time")
                  >= CountSet(store, d, b, "end_time")
           /\ StatusIn(store, d, b) = "YELLOW" => StatusIn(store', d, b) # "RED"
           /\ StatusIn(store, d, b) = "GREEN"
                  => StatusIn(store', d, b) = "GREEN"]_vars

\* a batch is GREEN and a request on it has been answered since
C28_Witness ==
    \E d \in InputDates, b \in InputBatches :
        /\ StatusIn(store, d, b) = "GREEN"
        /\ response.call.operation_date = d
        /\ response.call.batch = b
        /\ response.call.kind = "start"

\* ------------------------------------------------- C29
\* C29 as stated: every row has a batch that is offered on its date, and an
\* end request on a key whose batch is not offered on its date is always
\* answered "not started".
C29_EndNotStarted ==
    [][/\ \A o \in store' :
              o.batch \in (IF o.operation_date % 7 \in {1, 4}
                           THEN {"A", "B", "C"} ELSE {"A", "B", "C", "D"})
       /\ \A p \in Procs :
              ( /\ Entered(p)
                /\ EnteredCall(p).kind = "end"
                /\ ~is_batch_available(EnteredCall(p).operation_date,
                                       EnteredCall(p).batch) )
                  => Answer(p) = OPERATION_NOT_STARTED]_vars

\* C29: every row has a batch that is offered on its date (A, B, C on a
\* Monday or Thursday): neither start nor initialize_batch creates a row for
\* batch D on such a day; an end request on such a key finds no row and is
\* answered "not started", or "read-only" when its date is before the current
\* date, which end_operation checks first.
C29_RecordsOnAvailable ==
    [][/\ \A o \in store' :
              o.batch \in (IF o.operation_date % 7 \in {1, 4}
                           THEN {"A", "B", "C"} ELSE {"A", "B", "C", "D"})
       /\ \A p \in Procs :
              ( /\ Entered(p)
                /\ EnteredCall(p).kind = "end"
                /\ ~is_batch_available(EnteredCall(p).operation_date,
                                       EnteredCall(p).batch) )
                  => /\ RowOf(EnteredCall(p)) = NoRow
                     /\ Answer(p) = IF EnteredCall(p).operation_date < today
                                    THEN READONLY_DATE
                                    ELSE OPERATION_NOT_STARTED]_vars

\* on a Monday, after start and initialize_batch were refused for batch D of
\* that day or never asked, an end request on the key was answered "not
\* started" while the store holds rows of other days
C29_Witness ==
    /\ response.call.kind = "end"
    /\ isoweekday(response.call.operation_date) \in RESTRICTED_DAYS
    /\ response.call.batch = "D"
    /\ response.message = OPERATION_NOT_STARTED
    /\ store # {}

\* ------------------------------------------------- C30
\* C30: once a date is before the current server date its rows are frozen: no
\* start, end, Driver end or initialize_batch request made from then on adds
\* a row of that date or changes a column of one.  (Where no request is under
\* way at midnight, a step that writes is a step of a request made on the
\* current date of the step.)
C30_ReadOnlyFrozen ==
    [][\A d \in InputDates :
           d < today
               => { o \in store' : o.operation_date = d }
                      = { o \in store : o.operation_date = d }]_vars

====
